---- MODULE Spec2Model ----
(***************************************************************************)
(* Model of the infant_recon_all command runner and output validator       *)
(* (src/infant_recon_runner.py, class InfantReconRunner) together with the *)
(* unit tests that document its intended behaviour                         *)
(* (src/infant_recon_runner_gpt.py).                                       *)
(*                                                                         *)
(* Strings are sequences of atoms.  An atom is either a whitespace         *)
(* character or a piece of text that holds no whitespace, so that          *)
(* str.split() and ' '.join() are computed on them as Python computes them *)
(* on characters.                                                          *)
(***************************************************************************)
EXTENDS Integers, Sequences, FiniteSets, TLC

VARIABLES
    \* generate_unique_output_dir and modify_command_for_unique_output: their
    \* arguments and their return values
    command, base_dir, unique_output_dir, modified_command, cmd_done,
    \* run_command: the clock, and per caller the position in the call, the
    \* arguments, the result dict, what subprocess.run produced and how often
    \* it was invoked; the directories os.makedirs has created and the
    \* command.txt each of them holds
    now, pc, args, result, process, starts, made_dirs, command_txt,
    \* validate_outputs: the configuration, the tree under the output
    \* directory, the tree as the last validation saw it, and its result
    expected_outputs, tree, validated, validation_result,
    \* run_and_validate: the combined result it returns
    combined_result,
    \* generate_report: its results argument, and what the call produced
    report_input, report_result,
    \* InfantReconRunner.__init__: what is at the path config_file, and what
    \* load_config produced
    config_file, load_result,
    \* get_expected_output_directory: the command string, os.environ, the
    \* arguments the parser received, and the path it returned or the
    \* exception it raised
    cmd_string, environ, parser_input, eod_result,
    \* example_func: its input, and what the call produced
    example_input, example_output,
    \* TestInfantFSExecution: the module it is in, the directories that exist,
    \* the attributes of the latest test case, the exception its setUp ended
    \* with, and the outcome of each test run
    test_module, existing_dirs, fixture, setup_raised, outcomes

cmd_vars == <<command, base_dir, unique_output_dir, modified_command, cmd_done>>

run_vars == <<now, pc, args, result, process, starts, made_dirs, command_txt>>

val_vars == <<expected_outputs, tree, validated, validation_result>>

rav_vars == <<combined_result>>

rep_vars == <<report_input, report_result>>

cfg_vars == <<config_file, load_result>>

eod_vars == <<cmd_string, environ, parser_input, eod_result>>

ex_vars == <<example_input, example_output>>

tst_vars == <<test_module, existing_dirs, fixture, setup_raised, outcomes>>

vars == <<cmd_vars,
          run_vars,
          val_vars,
          rav_vars,
          rep_vars,
          cfg_vars,
          eod_vars,
          ex_vars,
          tst_vars>>

\* Every variable but those of: cmd.
except_cmd ==
    <<run_vars,
      val_vars,
      rav_vars,
      rep_vars,
      cfg_vars,
      eod_vars,
      ex_vars,
      tst_vars>>

\* Every variable but those of: run.
except_run ==
    <<cmd_vars,
      val_vars,
      rav_vars,
      rep_vars,
      cfg_vars,
      eod_vars,
      ex_vars,
      tst_vars>>

\* Every variable but those of: val.
except_val ==
    <<cmd_vars,
      run_vars,
      rav_vars,
      rep_vars,
      cfg_vars,
      eod_vars,
      ex_vars,
      tst_vars>>

\* Every variable but those of: run, val.
except_run_val ==
    <<cmd_vars,
      rav_vars,
      rep_vars,
      cfg_vars,
      eod_vars,
      ex_vars,
      tst_vars>>

\* Every variable but those of: run, val, rav.
except_run_val_rav ==
    <<cmd_vars,
      rep_vars,
      cfg_vars,
      eod_vars,
      ex_vars,
      tst_vars>>

\* Every variable but those of: rep.
except_rep ==
    <<cmd_vars,
      run_vars,
      val_vars,
      rav_vars,
      cfg_vars,
      eod_vars,
      ex_vars,
      tst_vars>>

\* Every variable but those of: val, cfg.
except_val_cfg ==
    <<cmd_vars,
      run_vars,
      rav_vars,
      rep_vars,
      eod_vars,
      ex_vars,
      tst_vars>>

\* Every variable but those of: eod.
except_eod ==
    <<cmd_vars,
      run_vars,
      val_vars,
      rav_vars,
      rep_vars,
      cfg_vars,
      ex_vars,
      tst_vars>>

\* Every variable but those of: ex.
except_ex ==
    <<cmd_vars,
      run_vars,
      val_vars,
      rav_vars,
      rep_vars,
      cfg_vars,
      eod_vars,
      tst_vars>>

\* Every variable but those of: eod, tst.
except_eod_tst ==
    <<cmd_vars,
      run_vars,
      val_vars,
      rav_vars,
      rep_vars,
      cfg_vars,
      ex_vars>>
----------------------------------------------------------------------------
\* Strings

\* The characters str.split() treats as separators (two of them are modelled).
Whitespace == {" ", "\t"}

\* The '--outdir' token.
OUTDIR == <<"--outdir">>

\* The longest command string the command-rewriting specification draws.
MaxCmdLen == 5

\* The atoms command strings are drawn from.
CmdAtoms == {" ", "\t", "--outdir", "SOMEWHERE", "-all"}

\* All strings over a set of atoms, up to a length.
StringsUpTo(atoms, n) == UNION {[1..k -> atoms] : k \in 0..n}

\* str.split(): the maximal runs of non-whitespace atoms, in order.
RECURSIVE SplitFrom(_, _, _)
SplitFrom(s, i, cur) ==
    LET flush == IF cur = <<>> THEN <<>> ELSE <<cur>>
    IN  IF i > Len(s) THEN flush
        ELSE IF s[i] \in Whitespace THEN flush \o SplitFrom(s, i + 1, <<>>)
        ELSE SplitFrom(s, i + 1, Append(cur, s[i]))

split(s) == SplitFrom(s, 1, <<>>)

\* ' '.join(parts)
RECURSIVE join(_)
join(parts) ==
    IF parts = <<>> THEN <<>>
    ELSE IF Len(parts) = 1 THEN parts[1]
    ELSE parts[1] \o <<" ">> \o join(Tail(parts))

\* list.index(x): the first position of x; 0 stands for the ValueError.
index(parts, x) ==
    IF \E i \in 1..Len(parts) : parts[i] = x
    THEN CHOOSE i \in 1..Len(parts) :
            parts[i] = x /\ \A j \in 1..(i - 1) : parts[j] # x
    ELSE 0

\* Python's 'needle in haystack' on strings.
Contains(haystack, needle) ==
    \E i \in 0..(Len(haystack) - Len(needle)) :
        SubSeq(haystack, i + 1, i + Len(needle)) = needle

----------------------------------------------------------------------------
\* InfantReconRunner.modify_command_for_unique_output

\* The rewriting with the '--outdir' pair put in front of the command.
modify_command_prepend(cmd, unique) ==
    LET parts == split(cmd)
        outdir_idx == index(parts, OUTDIR)
        new_parts ==
            IF outdir_idx # 0
            THEN IF outdir_idx + 1 <= Len(parts)
                 THEN [parts EXCEPT ![outdir_idx + 1] = unique]
                 ELSE parts
            ELSE <<OUTDIR, unique>> \o parts
    IN  join(new_parts)

\* The rewriting that appends '--outdir <unique>' whether or not it is there.
modify_command_always_append(cmd, unique) ==
    join(split(cmd) \o <<OUTDIR, unique>>)

modify_command_for_unique_output(cmd, unique) ==
    LET parts == split(cmd)
        outdir_idx == index(parts, OUTDIR)
        new_parts ==
            IF outdir_idx # 0
            THEN IF outdir_idx + 1 <= Len(parts)
                 THEN [parts EXCEPT ![outdir_idx + 1] = unique]
                 ELSE parts
            ELSE parts \o <<OUTDIR, unique>>
    IN  join(new_parts)

\* The unique directories handed to modify_command_for_unique_output.
UniqueDirs == {<<"out1">>, <<"SOMEWHERE", "/", "out2">>}

ModifyCommand ==
    /\ ~cmd_done
    /\ modified_command' = modify_command_for_unique_output(command, unique_output_dir)
    /\ cmd_done' = TRUE
    /\ UNCHANGED <<command, base_dir, unique_output_dir>>
    /\ UNCHANGED except_cmd

CmdNext == ModifyCommand

----------------------------------------------------------------------------
\* Python values

\* Python's None and a value that is not None.
None == <<>>

Some(x) == <<x>>

\* dict.update: the keys of u override and extend those of d.
update(d, u) == u @@ d

----------------------------------------------------------------------------
\* InfantReconRunner.validate_outputs

\* The paths below the output directory that the model follows; <<>> is the
\* output directory itself.  Each is absent ("none"), a regular file
\* ("file") or a directory ("dir").
Paths ==
    { <<>>, <<"mri">>, <<"surf">>, <<"mprage.nii.gz">>,
      <<"mri", "brainmask.mgz">>, <<"mri", "wm.mgz">>, <<"surf", "lh.pial">> }

\* The directory that holds a path.
parent(path) == SubSeq(path, 1, Len(path) - 1)

\* Nothing exists, not even the output directory.
EmptyTree == [path \in Paths |-> "none"]

\* A tree the file system can hold: what exists lies in a directory.
ValidTree(t) ==
    \A path \in Paths \ {<<>>} : t[path] # "none" => t[parent(path)] = "dir"

kind(t, path) == IF path \in DOMAIN t THEN t[path] ELSE "none"

\* os.path.exists in place of os.path.isfile.
path_exists(t, path) == kind(t, path) # "none"

\* os.path.isdir and os.path.isfile
isdir(t, path) == kind(t, path) = "dir"

isfile(t, path) == kind(t, path) = "file"

\* The configuration the tests of the runner install.
test_config ==
    [ required_files |->
        << <<".", <<"mprage.nii.gz">> >>, <<"mri", <<"brainmask.mgz">> >> >>,
      optional_files |-> << <<"mri", <<"wm.mgz">> >> >>,
      conditional_files |-> <<>> ]

\* get_default_config, each of its lists cut down to the paths the model
\* of the output tree follows.
reduced_default_config ==
    [ required_directories |-> <<"mri", "surf">>,
      required_files |->
        << <<"mri", <<"brainmask.mgz">> >>,
           <<"surf", <<>> >>,
           <<".", <<"mprage.nii.gz">> >> >>,
      optional_files |->
        << <<"mri", <<"wm.mgz">> >>, <<"work", <<>> >> >>,
      conditional_files |->
        << [ name |-> "surface_processing",
             condition |-> "surfaces_generated",
             files |-> << <<"surf", <<"lh.pial">> >> >> ] >> ]

\* get_default_config: a dict is the sequence of its items in their order.
get_default_config ==
    [ required_directories |-> <<"mri", "surf", "label", "stats", "log">>,
      required_files |->
        << <<"mri", <<"norm.mgz", "aseg.mgz", "brain.mgz", "brainmask.mgz",
                      "norm.nii.gz", "aseg.nii.gz">> >>,
           <<"surf", <<"lh.white", "rh.white", "lh.orig", "rh.orig">> >>,
           <<"label", <<>> >>,
           <<"stats", <<>> >>,
           <<"log", <<"recon.log">> >>,
           <<".", <<"mprage.nii.gz">> >> >>,
      optional_files |->
        << <<"mri", <<"filled.mgz", "wm.mgz", "brain.finalsurfs.mgz">> >>,
           <<"surf", <<"lh.area", "rh.area", "lh.curv", "rh.curv",
                       "lh.inflated", "rh.inflated">> >>,
           <<"work", <<>> >> >>,
      conditional_files |->
        << [ name |-> "surface_processing",
             condition |-> "surfaces_generated",
             files |-> << <<"surf", <<"lh.pial", "rh.pial",
                                      "lh.sphere", "rh.sphere">> >> >> ] >> ]

\* A configuration loaded from a YAML file: one file is listed as required
\* and as optional.
yaml_config ==
    [ required_directories |-> <<"mri">>,
      required_files |-> << <<"mri", <<"brainmask.mgz", "wm.mgz">> >> >>,
      optional_files |->
        << <<".", <<"mprage.nii.gz">> >>, <<"mri", <<"wm.mgz">> >> >> ]

\* The configurations of the runner whose outputs are validated.
Configs == {test_config, reduced_default_config, yaml_config}

\* dict.get(key, default)
get(d, key, default) == IF key \in DOMAIN d THEN d[key] ELSE default

\* The (directory, file_name) pairs in the order the nested loop over
\* files.items() and file_list visits them.
RECURSIVE entries_of(_)
entries_of(items) ==
    IF items = <<>> THEN <<>>
    ELSE [i \in 1..Len(items[1][2]) |-> <<items[1][1], items[1][2][i]>>]
            \o entries_of(Tail(items))

\* file_path: os.path.join(output_dir, file_name) for directory '.', else
\* os.path.join(output_dir, directory, file_name); relative to output_dir.
file_path(entry) ==
    IF entry[1] = "." THEN <<entry[2]>> ELSE <<entry[1], entry[2]>>

\* f"{directory}/{file_name}"
entry_name(entry) == <<entry[1], "/", entry[2]>>

\* The names of the entries of a list, in its order.
entry_names(seq) == [i \in 1..Len(seq) |-> entry_name(seq[i])]

\* validation_passed with the optional files counted as well.
validation_passed_strict(vr) ==
    /\ Len(vr.required_directories.missing) = 0
    /\ Len(vr.required_files.missing) = 0
    /\ Len(vr.optional_files.missing) = 0

\* The validation status.
validation_passed(vr) ==
    /\ Len(vr.required_directories.missing) = 0
    /\ Len(vr.required_files.missing) = 0

\* The result dict as validate_outputs first builds it.
initial_validation(output_dir, exists, t) ==
    [ output_directory |-> output_dir,
      validation_timestamp |-> t,
      directory_exists |-> exists,
      required_directories |-> [found |-> <<>>, missing |-> <<>>],
      required_files |-> [found |-> <<>>, missing |-> <<>>],
      optional_files |-> [found |-> <<>>, missing |-> <<>>],
      unexpected_files |-> <<>>,
      total_required_files |-> 0,
      total_found_required |-> 0,
      validation_passed |-> FALSE,
      summary |-> <<>> ]

\* validate_outputs reporting a required or optional file as missing only
\* when nothing at all is at its place.
validate_outputs_missing_is_absent(config, t, output_dir, at) ==
    LET first == initial_validation(output_dir, isdir(t, <<>>), at)
        req_dirs == get(config, "required_directories", <<>>)
        required == entries_of(get(config, "required_files", <<>>))
        optional == entries_of(get(config, "optional_files", <<>>))
        dir_found(d) == isdir(t, <<d>>)
        dir_missing(d) == ~isdir(t, <<d>>)
        file_found(e) == isfile(t, file_path(e))
        file_missing(e) == ~path_exists(t, file_path(e))
        checked ==
            update(first,
                   [ required_directories |->
                        [ found |-> SelectSeq(req_dirs, dir_found),
                          missing |-> SelectSeq(req_dirs, dir_missing) ],
                     required_files |->
                        [ found |-> entry_names(SelectSeq(required, file_found)),
                          missing |-> entry_names(SelectSeq(required, file_missing)) ],
                     optional_files |->
                        [ found |-> entry_names(SelectSeq(optional, file_found)),
                          missing |-> entry_names(SelectSeq(optional, file_missing)) ],
                     total_required_files |-> Len(required),
                     total_found_required |-> Len(SelectSeq(required, file_found)) ])
    IN  IF ~first.directory_exists
        THEN update(first,
                    [ summary |-> <<"Output directory does not exist: ">> \o output_dir ])
        ELSE update(checked,
                    [ validation_passed |-> validation_passed(checked),
                      summary |->
                        << "Found ", ToString(checked.total_found_required), "/",
                           ToString(checked.total_required_files), " required files, ",
                           ToString(Len(checked.required_directories.found)),
                           " directories" >> ])

validate_outputs(config, t, output_dir, at) ==
    LET first == initial_validation(output_dir, isdir(t, <<>>), at)
        req_dirs == get(config, "required_directories", <<>>)
        required == entries_of(get(config, "required_files", <<>>))
        optional == entries_of(get(config, "optional_files", <<>>))
        dir_found(d) == isdir(t, <<d>>)
        dir_missing(d) == ~isdir(t, <<d>>)
        file_found(e) == isfile(t, file_path(e))
        file_missing(e) == ~isfile(t, file_path(e))
        checked ==
            update(first,
                   [ required_directories |->
                        [ found |-> SelectSeq(req_dirs, dir_found),
                          missing |-> SelectSeq(req_dirs, dir_missing) ],
                     required_files |->
                        [ found |-> entry_names(SelectSeq(required, file_found)),
                          missing |-> entry_names(SelectSeq(required, file_missing)) ],
                     optional_files |->
                        [ found |-> entry_names(SelectSeq(optional, file_found)),
                          missing |-> entry_names(SelectSeq(optional, file_missing)) ],
                     total_required_files |-> Len(required),
                     total_found_required |-> Len(SelectSeq(required, file_found)) ])
    IN  IF ~first.directory_exists
        THEN update(first,
                    [ summary |-> <<"Output directory does not exist: ">> \o output_dir ])
        ELSE update(checked,
                    [ validation_passed |-> validation_passed(checked),
                      summary |->
                        << "Found ", ToString(checked.total_found_required), "/",
                           ToString(checked.total_required_files), " required files, ",
                           ToString(Len(checked.required_directories.found)),
                           " directories" >> ])

\* The output directory handed to validate_outputs.
OutputDir == <<"/tmp", "/", "sub-01_out">>

\* No validation has been made.
NotValidated == [validation_passed |-> FALSE]

\* The external command, or a test, creates a directory.
MakeDir(path) ==
    /\ tree[path] = "none"
    /\ path # <<>> => tree[parent(path)] = "dir"
    /\ tree' = [tree EXCEPT ![path] = "dir"]
    /\ UNCHANGED <<expected_outputs, validated, validation_result>>
    /\ UNCHANGED except_val

\* The external command, or a test, writes a regular file.
WriteFile(path) ==
    /\ path # <<>>
    /\ tree[path] = "none"
    /\ tree[parent(path)] = "dir"
    /\ tree' = [tree EXCEPT ![path] = "file"]
    /\ UNCHANGED <<expected_outputs, validated, validation_result>>
    /\ UNCHANGED except_val

\* A file or an empty directory is removed.
Remove(path) ==
    /\ tree[path] # "none"
    /\ \A q \in Paths \ {<<>>} : parent(q) = path => tree[q] = "none"
    /\ tree' = [tree EXCEPT ![path] = "none"]
    /\ UNCHANGED <<expected_outputs, validated, validation_result>>
    /\ UNCHANGED except_val

\* A call of validate_outputs on the output directory.
ValidateOutputs ==
    /\ validation_result' = validate_outputs(expected_outputs, tree, OutputDir, now)
    /\ validated' = Some(tree)
    /\ UNCHANGED <<expected_outputs, tree>>
    /\ UNCHANGED except_val

ValNext ==
    \/ \E path \in Paths : MakeDir(path)
    \/ \E path \in Paths : WriteFile(path)
    \/ \E path \in Paths : Remove(path)
    \/ ValidateOutputs

----------------------------------------------------------------------------
\* InfantReconRunner.generate_unique_output_dir and run_command

\* Clock ticks per second: datetime.now() is finer than the second that
\* strftime("%Y%m%d_%H%M%S") keeps.
TicksPerSecond == 2

\* The last tick of the clock.
MaxTick == 4

\* The largest timeout argument, in seconds.
MaxTimeout == 1

\* The largest return code of the external command.
MaxExitCode == 2

\* The callers of run_command (threads or processes sharing the clock and
\* the file system).
Callers == {"t1", "t2"}

\* The command strings handed to run_command.
RunCommands ==
    { <<"infant_recon_all", " ", "-s", " ", "sub-01", " ", "-all">>,
      <<"infant_recon_all", " ", "-s", " ", "sub-01", " ", "--outdir", " ",
        "SOMEWHERE", " ", "-all">>,
      <<"infant_recon_all", " ", "-s", " ", "sub-XYZ", " ", "-all">> }

\* What the external command can write to stdout and stderr.
Captures ==
    { [stdout |-> <<"OK">>, stderr |-> <<>>],
      [stdout |-> <<>>, stderr |-> <<"failure">>] }

\* datetime.now().strftime("%Y%m%d_%H%M%S") at tick t: the second of t.
strftime(t) == ToString(t \div TicksPerSecond)

\* os.getcwd()
getcwd == <<"/cwd">>

\* os.path.join of two components.
path_join(a, b) ==
    IF b # <<>> /\ b[1] = "/" THEN b
    ELSE IF a = <<>> \/ a[Len(a)] = "/" THEN a \o b
    ELSE a \o <<"/">> \o b

\* base_output_dir = None is the empty string here: both are falsy.
generate_unique_output_dir(base_command, base_output_dir, t) ==
    LET timestamp == strftime(t)
        parts == split(base_command)
        s_idx == index(parts, <<"-s">>)
        subject_name ==
            IF s_idx = 0 THEN <<"unknown">>
            ELSE IF s_idx + 1 <= Len(parts) THEN parts[s_idx + 1]
            ELSE <<"unknown">>
        unique_name == subject_name \o <<"_", timestamp>>
    IN  IF base_output_dir # <<>>
        THEN path_join(base_output_dir, unique_name)
        ELSE path_join(path_join(getcwd, <<"infant_recon_outputs">>), unique_name)

\* The result dict as run_command builds it before it runs the command.
initial_result(modified, command_string, unique, t) ==
    [ command |-> modified,
      original_command |-> command_string,
      output_directory |-> unique,
      start_time |-> t,
      success |-> FALSE,
      exit_code |-> None,
      stdout |-> <<>>,
      stderr |-> <<>>,
      execution_time_seconds |-> 0,
      timeout_occurred |-> FALSE,
      error_message |-> None ]

\* result_completed with the error message set whatever the return code.
result_completed_always_message(res, proc, t) ==
    update(res,
           [ success |-> (proc.returncode = 0),
             exit_code |-> Some(proc.returncode),
             stdout |-> proc.stdout,
             stderr |-> proc.stderr,
             execution_time_seconds |-> t - res.start_time,
             end_time |-> t,
             error_message |->
                Some(<<"Process exited with code ", ToString(proc.returncode)>>) ])

\* result_completed with the captured stderr dropped on failure.
result_completed_drops_stderr(res, proc, t) ==
    LET updated ==
            update(res,
                   [ success |-> (proc.returncode = 0),
                     exit_code |-> Some(proc.returncode),
                     stdout |-> proc.stdout,
                     execution_time_seconds |-> t - res.start_time,
                     end_time |-> t ])
    IN  IF proc.returncode = 0 THEN update(updated, [stderr |-> proc.stderr])
        ELSE update(updated,
                    [ error_message |->
                        Some(<<"Process exited with code ", ToString(proc.returncode)>>) ])

\* The result after subprocess.run returned a CompletedProcess.  Times are
\* in ticks.
result_completed(res, proc, t) ==
    LET updated ==
            update(res,
                   [ success |-> (proc.returncode = 0),
                     exit_code |-> Some(proc.returncode),
                     stdout |-> proc.stdout,
                     stderr |-> proc.stderr,
                     execution_time_seconds |-> t - res.start_time,
                     end_time |-> t ])
    IN  IF proc.returncode = 0 THEN updated
        ELSE update(updated,
                    [ error_message |->
                        Some(<<"Process exited with code ", ToString(proc.returncode)>>) ])

\* result_timeout with the measured time in place of the timeout argument.
result_timeout_elapsed(res, timeout, t) ==
    update(res,
           [ timeout_occurred |-> TRUE,
             execution_time_seconds |-> t - res.start_time,
             error_message |->
                Some(<<"Command timed out after ", ToString(timeout), " seconds">>),
             end_time |-> t ])

\* The result after subprocess.run raised TimeoutExpired.
result_timeout(res, timeout, t) ==
    update(res,
           [ timeout_occurred |-> TRUE,
             execution_time_seconds |-> timeout * TicksPerSecond,
             error_message |->
                Some(<<"Command timed out after ", ToString(timeout), " seconds">>),
             end_time |-> t ])

\* The result after subprocess.run raised another exception e.
result_exception(res, e, t) ==
    update(res,
           [ execution_time_seconds |-> t - res.start_time,
             error_message |-> Some(e),
             end_time |-> t ])

\* The exceptions other than TimeoutExpired that subprocess.run raises.
Exceptions == {<<"[Errno 2] No such file or directory">>}

NotStarted == [kind |-> "none"]

\* No command.txt has been written.
NoFiles == [d \in {} |-> <<>>]

\* The clock advances.
Tick ==
    /\ now < MaxTick
    /\ now' = now + 1
    /\ UNCHANGED <<pc, args, result, process, starts, made_dirs, command_txt>>
    /\ UNCHANGED except_run

\* run_command up to the call of subprocess.run: the unique directory, the
\* rewritten command, os.makedirs, command.txt written into the directory,
\* the initial result, and the one start of the external command.  The
\* environment handed to the command is left out.
RunCommandStart(p, command_string, timeout) ==
    /\ pc[p] = "idle"
    /\ LET unique == generate_unique_output_dir(command_string, None, now)
           modified == modify_command_for_unique_output(command_string, unique)
       IN  /\ made_dirs' = made_dirs \cup {unique}
           /\ command_txt' = (unique :> modified) @@ command_txt
           /\ result' = [result EXCEPT
                            ![p] = initial_result(modified, command_string, unique, now)]
    /\ args' = [args EXCEPT ![p] = [command_string |-> command_string,
                                    timeout |-> timeout]]
    /\ starts' = [starts EXCEPT ![p] = @ + 1]
    /\ pc' = [pc EXCEPT ![p] = "running"]
    /\ UNCHANGED <<now, process>>
    /\ UNCHANGED except_run

\* ProcessExit with a failed command started a second time.
ProcessExitRetry(p, returncode, cap) ==
    /\ pc[p] = "running"
    /\ now - result[p].start_time <= args[p].timeout * TicksPerSecond
    /\ LET proc == [ kind |-> "completed", returncode |-> returncode,
                     stdout |-> cap.stdout, stderr |-> cap.stderr ]
       IN  IF returncode # 0 /\ starts[p] < 2
           THEN /\ starts' = [starts EXCEPT ![p] = @ + 1]
                /\ UNCHANGED <<process, result, pc>>
           ELSE /\ process' = [process EXCEPT ![p] = proc]
                /\ result' = [result EXCEPT ![p] = result_completed(@, proc, now)]
                /\ pc' = [pc EXCEPT ![p] = "returned"]
                /\ UNCHANGED starts
    /\ UNCHANGED <<now, args, made_dirs, command_txt>>
    /\ UNCHANGED except_run

\* subprocess.run returns a CompletedProcess within the timeout, and
\* run_command returns.
ProcessExit(p, returncode, cap) ==
    /\ pc[p] = "running"
    /\ now - result[p].start_time <= args[p].timeout * TicksPerSecond
    /\ LET proc == [ kind |-> "completed", returncode |-> returncode,
                     stdout |-> cap.stdout, stderr |-> cap.stderr ]
       IN  /\ process' = [process EXCEPT ![p] = proc]
           /\ result' = [result EXCEPT ![p] = result_completed(@, proc, now)]
    /\ pc' = [pc EXCEPT ![p] = "returned"]
    /\ UNCHANGED <<now, args, starts, made_dirs, command_txt>>
    /\ UNCHANGED except_run

\* subprocess.run raises TimeoutExpired once the timeout has passed, and
\* run_command returns.
ProcessTimeout(p) ==
    /\ pc[p] = "running"
    /\ now - result[p].start_time >= args[p].timeout * TicksPerSecond
    /\ process' = [process EXCEPT ![p] = [kind |-> "TimeoutExpired"]]
    /\ result' = [result EXCEPT ![p] = result_timeout(@, args[p].timeout, now)]
    /\ pc' = [pc EXCEPT ![p] = "returned"]
    /\ UNCHANGED <<now, args, starts, made_dirs, command_txt>>
    /\ UNCHANGED except_run

\* subprocess.run raises another exception, and run_command returns.
ProcessException(p, e) ==
    /\ pc[p] = "running"
    /\ process' = [process EXCEPT ![p] = [kind |-> "Exception", message |-> e]]
    /\ result' = [result EXCEPT ![p] = result_exception(@, e, now)]
    /\ pc' = [pc EXCEPT ![p] = "returned"]
    /\ UNCHANGED <<now, args, starts, made_dirs, command_txt>>
    /\ UNCHANGED except_run

RunNext ==
    \/ Tick
    \/ \E p \in Callers, c \in RunCommands, t \in 1..MaxTimeout :
          RunCommandStart(p, c, t)
    \/ \E p \in Callers, rc \in 0..MaxExitCode, cap \in Captures :
          ProcessExit(p, rc, cap)
    \/ \E p \in Callers : ProcessTimeout(p)
    \/ \E p \in Callers, e \in Exceptions : ProcessException(p, e)

----------------------------------------------------------------------------
\* run_command up to the command it is going to execute, and
\* generate_unique_output_dir on its own, on every bounded command string

\* What the command strings are made of: separators, the two options the
\* functions look for, a subject name and the path separator.
PrepareAtoms == {" ", "-s", "--outdir", "sub-XYZ", "/"}

\* The base_output_dir arguments: not given, or a directory.
BaseOutputDirs == {None, <<"/tmp/ws">>}

\* generate_unique_output_dir(command, base_dir) called at the time now.
GenerateUniqueOutputDir ==
    /\ ~cmd_done
    /\ unique_output_dir' = generate_unique_output_dir(command, base_dir, now)
    /\ cmd_done' = TRUE
    /\ UNCHANGED <<command, base_dir, modified_command>>
    /\ UNCHANGED except_cmd

\* The first two statements of run_command: the unique directory (no
\* base_output_dir is passed) and the command rewritten to use it.
PrepareCommand ==
    /\ ~cmd_done
    /\ base_dir = None
    /\ LET unique == generate_unique_output_dir(command, None, now)
       IN  /\ unique_output_dir' = unique
           /\ modified_command' = modify_command_for_unique_output(command, unique)
    /\ cmd_done' = TRUE
    /\ UNCHANGED <<command, base_dir>>
    /\ UNCHANGED except_cmd

PrepareNext ==
    \/ GenerateUniqueOutputDir
    \/ PrepareCommand

----------------------------------------------------------------------------
\* InfantReconRunner.run_and_validate

\* The caller of run_and_validate.
RavCaller == "t1"

\* overall_success with 'or' in the place of 'and'.
overall_success_either(exec_result, validation) ==
    exec_result.success \/ validation.validation_passed

\* exec_result['success'] and validation_result['validation_passed']
overall_success(exec_result, validation) ==
    exec_result.success /\ validation.validation_passed

\* The dict run_and_validate returns.
combine(exec_result, validation, t) ==
    [ execution |-> exec_result,
      validation |-> validation,
      overall_success |-> overall_success(exec_result, validation),
      test_timestamp |-> t ]

\* run_and_validate up to the call of subprocess.run inside run_command:
\* as RunCommandStart, with the directory os.makedirs creates seen in the
\* tree under the output directory.
RunAndValidateStart(command_string, timeout) ==
    /\ pc[RavCaller] = "idle"
    /\ combined_result = None
    /\ tree[<<>>] # "file"
    /\ LET unique == generate_unique_output_dir(command_string, None, now)
           modified == modify_command_for_unique_output(command_string, unique)
       IN  /\ made_dirs' = made_dirs \cup {unique}
           /\ command_txt' = (unique :> modified) @@ command_txt
           /\ result' = [result EXCEPT
                            ![RavCaller] = initial_result(modified, command_string,
                                                          unique, now)]
    /\ args' = [args EXCEPT ![RavCaller] = [command_string |-> command_string,
                                            timeout |-> timeout]]
    /\ starts' = [starts EXCEPT ![RavCaller] = @ + 1]
    /\ pc' = [pc EXCEPT ![RavCaller] = "running"]
    /\ tree' = [tree EXCEPT ![<<>>] = "dir"]
    /\ UNCHANGED <<now, process>>
    /\ UNCHANGED <<expected_outputs, validated, validation_result>>
    /\ UNCHANGED except_run_val

\* The rest of run_and_validate once subprocess.run has produced proc and
\* run_command returns exec_result: the validation of the output directory
\* and the combined result.
RunAndValidateReturn(proc, exec_result) ==
    /\ process' = [process EXCEPT ![RavCaller] = proc]
    /\ result' = [result EXCEPT ![RavCaller] = exec_result]
    /\ pc' = [pc EXCEPT ![RavCaller] = "returned"]
    /\ LET validation == validate_outputs(expected_outputs, tree,
                                          exec_result.output_directory, now)
       IN  /\ validation_result' = validation
           /\ validated' = Some(tree)
           /\ combined_result' = Some(combine(exec_result, validation, now))
    /\ UNCHANGED <<now, args, starts, made_dirs, command_txt>>
    /\ UNCHANGED <<expected_outputs, tree>>
    /\ UNCHANGED except_run_val_rav

\* The command exits within the timeout.
RunAndValidateExit(returncode, cap) ==
    /\ pc[RavCaller] = "running"
    /\ now - result[RavCaller].start_time <= args[RavCaller].timeout * TicksPerSecond
    /\ LET proc == [ kind |-> "completed", returncode |-> returncode,
                     stdout |-> cap.stdout, stderr |-> cap.stderr ]
       IN  RunAndValidateReturn(proc, result_completed(result[RavCaller], proc, now))

\* The command runs into the timeout.
RunAndValidateTimeout ==
    /\ pc[RavCaller] = "running"
    /\ now - result[RavCaller].start_time >= args[RavCaller].timeout * TicksPerSecond
    /\ RunAndValidateReturn([kind |-> "TimeoutExpired"],
                            result_timeout(result[RavCaller],
                                           args[RavCaller].timeout, now))

\* subprocess.run raises another exception.
RunAndValidateException(e) ==
    /\ pc[RavCaller] = "running"
    /\ RunAndValidateReturn([kind |-> "Exception", message |-> e],
                            result_exception(result[RavCaller], e, now))

\* One call of run_and_validate; the command writes below its output
\* directory while it runs.
RavNext ==
    \/ combined_result = None /\ Tick
    \/ \E c \in RunCommands, t \in 1..MaxTimeout : RunAndValidateStart(c, t)
    \/ \E path \in Paths : pc[RavCaller] = "running" /\ MakeDir(path)
    \/ \E path \in Paths : pc[RavCaller] = "running" /\ WriteFile(path)
    \/ \E path \in Paths : pc[RavCaller] = "running" /\ Remove(path)
    \/ \E rc \in 0..MaxExitCode, cap \in Captures : RunAndValidateExit(rc, cap)
    \/ RunAndValidateTimeout
    \/ \E e \in Exceptions : RunAndValidateException(e)

----------------------------------------------------------------------------
\* InfantReconRunner.generate_report

\* The longest list of results handed to generate_report.
MaxResults == 3

\* The result dicts: with overall_success true or false, and without the
\* key.
ResultDicts ==
    { [overall_success |-> b, test_timestamp |-> t] : b \in BOOLEAN, t \in 0..1 }
        \cup { [test_timestamp |-> t] : t \in 0..1 }

\* The results argument: a list of result dicts, or a single dict.
ReportInputs ==
    { [kind |-> "list", value |-> l] : l \in StringsUpTo(ResultDicts, MaxResults) }
        \cup { [kind |-> "dict", value |-> r] : r \in ResultDicts }

\* generate_report(results) at the time t, no output_file given: the report
\* it returns, or the exception of the success rate it prints
\* (passed_tests / total_tests) when there is no result.
generate_report(res, t) ==
    LET list == IF res.kind = "list" THEN res.value ELSE <<res.value>>
        ok(r) == get(r, "overall_success", FALSE)
        not_ok(r) == ~get(r, "overall_success", FALSE)
        report == [ report_timestamp |-> t,
                    total_tests |-> Len(list),
                    passed_tests |-> Len(SelectSeq(list, ok)),
                    failed_tests |-> Len(SelectSeq(list, not_ok)),
                    test_details |-> list ]
    IN  IF report.total_tests = 0
        THEN [raises |-> "ZeroDivisionError"]
        ELSE [returns |-> report]

GenerateReport ==
    /\ report_result = None
    /\ report_result' = Some(generate_report(report_input, now))
    /\ UNCHANGED report_input
    /\ UNCHANGED except_rep

ReportNext == GenerateReport

----------------------------------------------------------------------------
\* InfantReconRunner.__init__ and load_config

\* The longest configuration file, in lines.
MaxLines == 3

\* The lines of a configuration file: a key of the top-level mapping
\* ('required_directories:'), an item of a list ('- mri'), or an opening
\* brace that nothing closes.
YamlLines ==
    { [key |-> k] : k \in {"required_directories", "notes"} }
        \cup { [item |-> x] : x \in {"mri", "surf"} }
        \cup { [bad |-> "{"] }

\* What is at the path config_file: nothing, something open() refuses (a
\* directory, a file without read permission), bytes that are not text in
\* the encoding open() uses, or lines of text.
ConfigFiles ==
    { [kind |-> "missing"], [kind |-> "unreadable"], [kind |-> "undecodable"] }
        \cup { [kind |-> "text", lines |-> l] : l \in StringsUpTo(YamlLines, MaxLines) }

\* The items that follow line i.
RECURSIVE ItemsAfter(_, _)
ItemsAfter(lines, i) ==
    IF i + 1 <= Len(lines) /\ "item" \in DOMAIN lines[i + 1]
    THEN <<lines[i + 1].item>> \o ItemsAfter(lines, i + 1)
    ELSE <<>>

\* yaml.safe_load on the lines of a file: None for an empty document, a list
\* for a document of items, a mapping from each key to the list of the items
\* below its last occurrence (None when there is none) for a document that
\* starts with a key, and YAMLError for a key after the items of a top-level
\* list and for an unclosed brace.
safe_load(lines) ==
    LET is_key(i) == "key" \in DOMAIN lines[i]
        is_item(i) == "item" \in DOMAIN lines[i]
        keys == { lines[i].key : i \in { j \in 1..Len(lines) : is_key(j) } }
        last(k) == CHOOSE i \in 1..Len(lines) :
                      /\ is_key(i) /\ lines[i].key = k
                      /\ \A j \in (i + 1)..Len(lines) :
                            ~(is_key(j) /\ lines[j].key = k)
    IN  IF lines = <<>> THEN [returns |-> None]
        ELSE IF \E i \in 1..Len(lines) : "bad" \in DOMAIN lines[i]
             THEN [raises |-> "YAMLError"]
        ELSE IF is_item(1)
             THEN IF \A i \in 1..Len(lines) : is_item(i)
                  THEN [returns |-> [i \in 1..Len(lines) |-> lines[i].item]]
                  ELSE [raises |-> "YAMLError"]
        ELSE [returns |-> [k \in keys |-> ItemsAfter(lines, last(k))]]

\* load_config: the configuration it returns or the exception it lets
\* through.  FileNotFoundError and YAMLError are the two it catches.
load_config(file) ==
    IF file.kind = "missing" THEN [returns |-> get_default_config]
    ELSE IF file.kind = "unreadable" THEN [raises |-> "OSError"]
    ELSE IF file.kind = "undecodable" THEN [raises |-> "UnicodeDecodeError"]
    ELSE LET config == safe_load(file.lines)
         IN  IF DOMAIN config = {"raises"}
             THEN [returns |-> get_default_config]
             ELSE [returns |-> config.returns]

\* InfantReconRunner(config_file): expected_outputs is what load_config
\* returns; no runner is constructed when load_config raises.
Construct ==
    /\ load_result = None
    /\ LET loaded == load_config(config_file)
       IN  /\ load_result' = Some(loaded)
           /\ expected_outputs' =
                 IF DOMAIN loaded = {"returns"} THEN loaded.returns
                 ELSE expected_outputs
    /\ UNCHANGED config_file
    /\ UNCHANGED <<tree, validated, validation_result>>
    /\ UNCHANGED except_val_cfg

LoadNext == Construct

----------------------------------------------------------------------------
\* parse_args and get_expected_output_directory of the test modules

\* The most words in the arguments of a command string.
MaxWords == 4

\* The double quote; shlex.split is modelled for double quotes and
\* whitespace, with no escapes and no single quotes.
QUOTE == "\""

\* The words of the arguments, written as in the command string: options,
\* a subject, an absolute path, a quoted path with a space in it, a script
\* name and a lone quote.
ArgWords ==
    { <<"-s">>, <<"sub-01">>, <<"--outdir">>, <<"/", "out">>,
      <<QUOTE, "/", "my", " ", "out", QUOTE>>, <<"run", ".py">>, <<QUOTE>> }

\* What a command string starts with, before its arguments.
CommandPrefixes ==
    { <<>>, <<<<"python">>>>, <<<<"infant_recon_all">>>>,
      <<<<"python">>, <<"infant_recon_all">>>> }

\* The command strings: a prefix and up to MaxWords words, one space between
\* them.
CommandStrings ==
    { join(pre \o ws) : pre \in CommandPrefixes, ws \in StringsUpTo(ArgWords, MaxWords) }

\* os.environ: SUBJECTS_DIR unset, or set.
Environs ==
    { [v \in {} |-> <<>>], [SUBJECTS_DIR |-> <<"/", "subjects">>] }

\* The quotes of a string do not pair up: shlex.split raises ValueError
\* ('No closing quotation').
unclosed(s) == Cardinality({ i \in 1..Len(s) : s[i] = QUOTE }) % 2 = 1

\* shlex.split(s) for a string whose quotes pair up: whitespace outside
\* quotes separates the tokens, the quotes are taken off and what is between
\* them, spaces included, goes into the token.
RECURSIVE ShlexFrom(_, _, _, _, _)
ShlexFrom(s, i, cur, started, quoted) ==
    LET flush == IF started THEN <<cur>> ELSE <<>>
    IN  IF i > Len(s) THEN flush
        ELSE IF s[i] = QUOTE THEN ShlexFrom(s, i + 1, cur, TRUE, ~quoted)
        ELSE IF s[i] \in Whitespace /\ ~quoted
             THEN flush \o ShlexFrom(s, i + 1, <<>>, FALSE, FALSE)
        ELSE ShlexFrom(s, i + 1, Append(cur, s[i]), TRUE, quoted)

shlex_split(s) == ShlexFrom(s, 1, <<>>, FALSE, FALSE)

\* The options of the parser create_cli builds that take one value, with
\* the attribute each sets, and its flags.
ValueOptions ==
    [ s |-> <<"-s">>, outdir |-> <<"--outdir">>, age |-> <<"--age">>,
      inputfile |-> <<"--inputfile">> ]

FlagOptions == [ no_cleanup |-> <<"--no-cleanup">> ]

\* A token argparse takes for an option, never for a value.
is_option(token) ==
    \/ \E d \in DOMAIN ValueOptions : ValueOptions[d] = token
    \/ \E d \in DOMAIN FlagOptions : FlagOptions[d] = token

\* The namespace before any argument is read.
empty_namespace ==
    [ s |-> None, outdir |-> None, age |-> None, inputfile |-> None,
      no_cleanup |-> FALSE ]

\* parser.parse_args from argument i on: each option with its value, the
\* last occurrence winning; [error |-> ...] is the SystemExit of a missing
\* value or an argument that is no option.
RECURSIVE ParseFrom(_, _, _)
ParseFrom(args_list, i, ns) ==
    IF i > Len(args_list) THEN ns
    ELSE IF \E d \in DOMAIN ValueOptions : ValueOptions[d] = args_list[i]
         THEN LET d == CHOOSE d \in DOMAIN ValueOptions :
                            ValueOptions[d] = args_list[i]
              IN  IF i + 1 <= Len(args_list) /\ ~is_option(args_list[i + 1])
                  THEN ParseFrom(args_list, i + 2,
                                 [ns EXCEPT ![d] = Some(args_list[i + 1])])
                  ELSE [error |-> "expected one argument"]
    ELSE IF \E d \in DOMAIN FlagOptions : FlagOptions[d] = args_list[i]
         THEN LET d == CHOOSE d \in DOMAIN FlagOptions :
                            FlagOptions[d] = args_list[i]
              IN  ParseFrom(args_list, i + 1, [ns EXCEPT ![d] = TRUE])
    ELSE [error |-> "unrecognized arguments"]

\* parser.parse_args(args_list) of the parser create_cli builds; -s is
\* required.
parser_parse_args(args_list) ==
    LET ns == ParseFrom(args_list, 1, empty_namespace)
    IN  IF "error" \in DOMAIN ns THEN ns
        ELSE IF ns.s = None THEN [error |-> "the following arguments are required: -s"]
        ELSE ns

\* The list of arguments parse_args(cmd_str) hands to the parser.
args_list_of(cmd_str) == shlex_split(cmd_str)

\* parse_args(cmd_str), for a string whose quotes pair up.
parse_args(cmd_str) == parser_parse_args(args_list_of(cmd_str))

\* The string get_expected_output_directory hands to parse_args: the tokens
\* of the command without a leading 'python' and without a script name
\* after it, joined by spaces.
args_str_of(cmd_str) ==
    LET cmd_parts == shlex_split(cmd_str)
        no_python ==
            IF Len(cmd_parts) > 0 /\ cmd_parts[1] = <<"python">>
            THEN Tail(cmd_parts) ELSE cmd_parts
        is_script(token) ==
            \/ \E i \in 1..Len(token) : token[i] = "infant_recon_all"
            \/ (token # <<>> /\ token[Len(token)] = ".py")
        no_script ==
            IF Len(no_python) > 0 /\ is_script(no_python[1])
            THEN Tail(no_python) ELSE no_python
    IN  join(no_script)

\* os.path.isabs: the path begins with a slash, as the atom '/' and the
\* first atom of the working directory do.
isabs(path) == path # <<>> /\ path[1] \in {"/", getcwd[1]}

\* os.path.abspath, without the normalisation of '.' and '..'.
abspath(path) ==
    IF isabs(path) THEN path
    ELSE IF path = <<>> THEN getcwd
    ELSE getcwd \o <<"/">> \o path

\* get_expected_output_directory(cmd_str) under the environment env: the
\* path it returns or the exception it raises.
get_expected_output_directory(cmd_str, env) ==
    IF unclosed(cmd_str) THEN [raises |-> "ValueError"]
    ELSE LET parsed == parse_args(args_str_of(cmd_str))
         IN  IF "error" \in DOMAIN parsed THEN [raises |-> "SystemExit"]
             ELSE IF parsed.s = None \/ parsed.s = Some(<<>>)
                  THEN [raises |-> "ValueError"]
             ELSE LET subj == parsed.s[1]
                      subjsdir == get(env, "SUBJECTS_DIR", getcwd)
                  IN  IF parsed.outdir # None /\ parsed.outdir # Some(<<>>)
                      THEN [returns |-> abspath(parsed.outdir[1])]
                      ELSE [returns |-> abspath(path_join(subjsdir, subj))]

\* A call of get_expected_output_directory; parser_input is the list of
\* arguments the parser received, if it was reached.
GetExpectedOutputDirectory ==
    /\ eod_result = None
    /\ eod_result' = Some(get_expected_output_directory(cmd_string, environ))
    /\ parser_input' =
          IF unclosed(cmd_string) THEN None
          ELSE Some(args_list_of(args_str_of(cmd_string)))
    /\ UNCHANGED <<cmd_string, environ>>
    /\ UNCHANGED except_eod

ExpectedNext == GetExpectedOutputDirectory

----------------------------------------------------------------------------
\* example_func

\* The largest integer handed to example_func, in absolute value.
MaxInt == 30

\* The inputs: integers, booleans (instances of int as well), dicts and
\* strings.
ExampleInputs ==
    { [type |-> "int", int |-> n] : n \in (-MaxInt)..MaxInt }
        \cup { [type |-> "bool", bool |-> b] : b \in BOOLEAN }
        \cup { [type |-> "dict", keys |-> <<"a">>], [type |-> "str", str |-> "a"] }

isinstance_int(input) == input.type \in {"int", "bool"}

\* example_func returning the absolute value of an integer.
example_func_positive(input) ==
    IF isinstance_int(input)
    THEN IF input.type = "int" /\ input.int < 0
         THEN [returns |-> [type |-> "int", int |-> 0 - input.int]]
         ELSE [returns |-> input]
    ELSE IF input.type = "dict"
         THEN [returns |-> [type |-> "NotImplementedError",
                            message |-> "Suport for dict input not implemented yet."]]
    ELSE [raises |-> "ValueError"]

\* example_func: the value it returns (the NotImplementedError for a dict is
\* returned, not raised) or the exception it raises.
example_func(input) ==
    IF isinstance_int(input) THEN [returns |-> input]
    ELSE IF input.type = "dict"
         THEN [returns |-> [type |-> "NotImplementedError",
                            message |-> "Suport for dict input not implemented yet."]]
    ELSE [raises |-> "ValueError"]

ExampleFunc ==
    /\ example_output = None
    /\ example_output' = Some(example_func(example_input))
    /\ UNCHANGED example_input
    /\ UNCHANGED except_ex

ExampleNext == ExampleFunc

----------------------------------------------------------------------------
\* TestInfantFSExecution.setUp of the two test modules, and the tests run
\* on its fixture

\* The most test methods run in one session.
MaxTests == 3

\* The modules that define TestInfantFSExecution.
TestModules == {"infant_quick_test", "infant_recon_all_test"}

\* self.infantfs_command as setUp defines it.
infantfs_command ==
    << "-s", " ", "sub-01", " ", "--age", " ", "18", " ", "--inputfile", " ",
       "/", "Users/cyh/Desktop/infant_recon_test/sub-01/anat/sub-01_T1w.nii.gz",
       " ", "--no-cleanup" >>

\* The value setUp gives os.environ['SUBJECTS_DIR'].
test_subjects_dir == <<"/", "Users/cyh/Desktop/infant_recon_test/test_subjects">>

\* The path setUp assigns to self.expected_output_dir in its last statement.
test_execution_output ==
    <<"/", "Users/cyh/Desktop/infant_recon_test/test_execution_output">>

\* os.environ before the session: SUBJECTS_DIR unset, set to another
\* directory, or set as setUp sets it.
SessionEnvirons == Environs \cup { [SUBJECTS_DIR |-> test_subjects_dir] }

\* The directories the output tests can be pointed at.
OutputDirs ==
    { test_execution_output, test_subjects_dir \o <<"/", "sub-01">> }

\* The test methods of a module that read the fixture of setUp.
TestMethods(module) ==
    IF module = "infant_quick_test"
    THEN { "test_command_parsing", "test_output_directory_logic",
           "test_output_directory_exists" }
    ELSE { "test_command_parsing", "test_output_directory_logic" }

\* A new test case: no attribute is set.
new_fixture ==
    [ infantfs_command |-> None, expected_output_dir |-> None,
      parsed_args |-> None ]

\* setUp of a module under the environment env: os.environ and the
\* attributes of the test case when it ends, and the exception that ends
\* it, if any.  infant_recon_all_test reads self.args_only, which nothing
\* assigns; infant_quick_test parses self.infantfs_command and goes on to
\* the last assignment of self.expected_output_dir.
setUp(module, env) ==
    LET env1 == update(env, [SUBJECTS_DIR |-> test_subjects_dir])
        computed == get_expected_output_directory(infantfs_command, env1)
        with_command == [new_fixture EXCEPT !.infantfs_command = Some(infantfs_command)]
        with_computed ==
            [with_command EXCEPT !.expected_output_dir = Some(computed.returns)]
    IN  IF "raises" \in DOMAIN computed
        THEN [environ |-> env1, fixture |-> with_command, raises |-> Some(computed.raises)]
        ELSE IF module = "infant_recon_all_test"
             THEN [ environ |-> env1, fixture |-> with_computed,
                    raises |-> Some("AttributeError") ]
        ELSE [ environ |-> env1,
               fixture |-> [with_computed EXCEPT
                              !.parsed_args = Some(parse_args(infantfs_command)),
                              !.expected_output_dir = Some(test_execution_output)],
               raises |-> None ]

\* The outcome of a test method on the fixture; dirs are the directories
\* that exist.  The conversion of --age to an integer is left out.
test_method(method, fix, dirs) ==
    LET passed ==
            IF method = "test_command_parsing"
            THEN /\ fix.parsed_args[1].s = Some(<<"sub-01">>)
                 /\ fix.parsed_args[1].age = Some(<<"18">>)
                 /\ fix.parsed_args[1].no_cleanup
            ELSE IF method = "test_output_directory_logic"
                 THEN isabs(fix.expected_output_dir[1])
            ELSE fix.expected_output_dir[1] \in dirs
    IN  IF passed THEN "pass" ELSE "fail"

\* unittest runs one test method on a new test case: setUp, and the method
\* when setUp has not raised.
RunTest(method) ==
    /\ Len(outcomes) < MaxTests
    /\ method \in TestMethods(test_module)
    /\ LET done == setUp(test_module, environ)
           outcome == IF done.raises # None THEN "error"
                      ELSE test_method(method, done.fixture, existing_dirs)
       IN  /\ environ' = done.environ
           /\ fixture' = done.fixture
           /\ setup_raised' = done.raises
           /\ outcomes' = Append(outcomes, <<method, outcome>>)
    /\ UNCHANGED <<test_module, existing_dirs>>
    /\ UNCHANGED <<cmd_string, parser_input, eod_result>>
    /\ UNCHANGED except_eod_tst

TestNext ==
    \E method \in TestMethods("infant_quick_test") : RunTest(method)

----------------------------------------------------------------------------
\* Specifications

\* The runner: callers of run_command, the external command and the clock.
\* No call is under way and no command is being rewritten.
Init ==
    /\ command = <<>>
    /\ base_dir = None
    /\ unique_output_dir = <<>>
    /\ modified_command = <<>>
    /\ cmd_done = FALSE
    /\ now = 0
    /\ pc = [p \in Callers |-> "idle"]
    /\ args = [p \in Callers |-> [command_string |-> <<>>, timeout |-> 0]]
    /\ result = [p \in Callers |-> [output_directory |-> <<>>]]
    /\ process = [p \in Callers |-> NotStarted]
    /\ starts = [p \in Callers |-> 0]
    /\ made_dirs = {}
    /\ command_txt = NoFiles
    /\ expected_outputs = test_config
    /\ tree = EmptyTree
    /\ validated = None
    /\ validation_result = NotValidated
    /\ combined_result = None
    /\ report_input = [kind |-> "list", value |-> <<>>]
    /\ report_result = None
    /\ config_file = [kind |-> "missing"]
    /\ load_result = None
    /\ cmd_string = <<>>
    /\ environ = [v \in {} |-> <<>>]
    /\ parser_input = None
    /\ eod_result = None
    /\ example_input = [type |-> "int", int |-> 0]
    /\ example_output = None
    /\ test_module = "infant_quick_test"
    /\ existing_dirs = {}
    /\ fixture = new_fixture
    /\ setup_raised = None
    /\ outcomes = <<>>

Spec == Init /\ [][RunNext]_vars

\* The command rewriting on every bounded command string and each of the
\* unique directories.
CmdInit ==
    /\ command \in StringsUpTo(CmdAtoms, MaxCmdLen)
    /\ base_dir = None
    /\ unique_output_dir \in UniqueDirs
    /\ modified_command = <<>>
    /\ cmd_done = FALSE
    /\ now = 0
    /\ pc = [p \in Callers |-> "idle"]
    /\ args = [p \in Callers |-> [command_string |-> <<>>, timeout |-> 0]]
    /\ result = [p \in Callers |-> [output_directory |-> <<>>]]
    /\ process = [p \in Callers |-> NotStarted]
    /\ starts = [p \in Callers |-> 0]
    /\ made_dirs = {}
    /\ command_txt = NoFiles
    /\ expected_outputs = test_config
    /\ tree = EmptyTree
    /\ validated = None
    /\ validation_result = NotValidated
    /\ combined_result = None
    /\ report_input = [kind |-> "list", value |-> <<>>]
    /\ report_result = None
    /\ config_file = [kind |-> "missing"]
    /\ load_result = None
    /\ cmd_string = <<>>
    /\ environ = [v \in {} |-> <<>>]
    /\ parser_input = None
    /\ eod_result = None
    /\ example_input = [type |-> "int", int |-> 0]
    /\ example_output = None
    /\ test_module = "infant_quick_test"
    /\ existing_dirs = {}
    /\ fixture = new_fixture
    /\ setup_raised = None
    /\ outcomes = <<>>

SpecCmd == CmdInit /\ [][CmdNext]_vars

\* The validator on each configuration, with the tree under the output
\* directory changing between validations.
ValInit ==
    /\ command = <<>>
    /\ base_dir = None
    /\ unique_output_dir = <<>>
    /\ modified_command = <<>>
    /\ cmd_done = FALSE
    /\ now = 0
    /\ pc = [p \in Callers |-> "idle"]
    /\ args = [p \in Callers |-> [command_string |-> <<>>, timeout |-> 0]]
    /\ result = [p \in Callers |-> [output_directory |-> <<>>]]
    /\ process = [p \in Callers |-> NotStarted]
    /\ starts = [p \in Callers |-> 0]
    /\ made_dirs = {}
    /\ command_txt = NoFiles
    /\ expected_outputs \in Configs
    /\ tree = EmptyTree
    /\ validated = None
    /\ validation_result = NotValidated
    /\ combined_result = None
    /\ report_input = [kind |-> "list", value |-> <<>>]
    /\ report_result = None
    /\ config_file = [kind |-> "missing"]
    /\ load_result = None
    /\ cmd_string = <<>>
    /\ environ = [v \in {} |-> <<>>]
    /\ parser_input = None
    /\ eod_result = None
    /\ example_input = [type |-> "int", int |-> 0]
    /\ example_output = None
    /\ test_module = "infant_quick_test"
    /\ existing_dirs = {}
    /\ fixture = new_fixture
    /\ setup_raised = None
    /\ outcomes = <<>>

SpecValidate == ValInit /\ [][ValNext]_vars

\* The preparation of the command on every bounded command string, each
\* base directory and each time of the clock.
PrepareInit ==
    /\ command \in StringsUpTo(PrepareAtoms, MaxCmdLen)
    /\ base_dir \in BaseOutputDirs
    /\ unique_output_dir = <<>>
    /\ modified_command = <<>>
    /\ cmd_done = FALSE
    /\ now \in 0..MaxTick
    /\ pc = [p \in Callers |-> "idle"]
    /\ args = [p \in Callers |-> [command_string |-> <<>>, timeout |-> 0]]
    /\ result = [p \in Callers |-> [output_directory |-> <<>>]]
    /\ process = [p \in Callers |-> NotStarted]
    /\ starts = [p \in Callers |-> 0]
    /\ made_dirs = {}
    /\ command_txt = NoFiles
    /\ expected_outputs = test_config
    /\ tree = EmptyTree
    /\ validated = None
    /\ validation_result = NotValidated
    /\ combined_result = None
    /\ report_input = [kind |-> "list", value |-> <<>>]
    /\ report_result = None
    /\ config_file = [kind |-> "missing"]
    /\ load_result = None
    /\ cmd_string = <<>>
    /\ environ = [v \in {} |-> <<>>]
    /\ parser_input = None
    /\ eod_result = None
    /\ example_input = [type |-> "int", int |-> 0]
    /\ example_output = None
    /\ test_module = "infant_quick_test"
    /\ existing_dirs = {}
    /\ fixture = new_fixture
    /\ setup_raised = None
    /\ outcomes = <<>>

SpecPrepare == PrepareInit /\ [][PrepareNext]_vars

\* One call of run_and_validate under each configuration.
RavInit ==
    /\ command = <<>>
    /\ base_dir = None
    /\ unique_output_dir = <<>>
    /\ modified_command = <<>>
    /\ cmd_done = FALSE
    /\ now = 0
    /\ pc = [p \in Callers |-> "idle"]
    /\ args = [p \in Callers |-> [command_string |-> <<>>, timeout |-> 0]]
    /\ result = [p \in Callers |-> [output_directory |-> <<>>]]
    /\ process = [p \in Callers |-> NotStarted]
    /\ starts = [p \in Callers |-> 0]
    /\ made_dirs = {}
    /\ command_txt = NoFiles
    /\ expected_outputs \in Configs
    /\ tree = EmptyTree
    /\ validated = None
    /\ validation_result = NotValidated
    /\ combined_result = None
    /\ report_input = [kind |-> "list", value |-> <<>>]
    /\ report_result = None
    /\ config_file = [kind |-> "missing"]
    /\ load_result = None
    /\ cmd_string = <<>>
    /\ environ = [v \in {} |-> <<>>]
    /\ parser_input = None
    /\ eod_result = None
    /\ example_input = [type |-> "int", int |-> 0]
    /\ example_output = None
    /\ test_module = "infant_quick_test"
    /\ existing_dirs = {}
    /\ fixture = new_fixture
    /\ setup_raised = None
    /\ outcomes = <<>>

SpecRunValidate == RavInit /\ [][RavNext]_vars

\* generate_report on every bounded list of results and every single result.
ReportInit ==
    /\ command = <<>>
    /\ base_dir = None
    /\ unique_output_dir = <<>>
    /\ modified_command = <<>>
    /\ cmd_done = FALSE
    /\ now = 0
    /\ pc = [p \in Callers |-> "idle"]
    /\ args = [p \in Callers |-> [command_string |-> <<>>, timeout |-> 0]]
    /\ result = [p \in Callers |-> [output_directory |-> <<>>]]
    /\ process = [p \in Callers |-> NotStarted]
    /\ starts = [p \in Callers |-> 0]
    /\ made_dirs = {}
    /\ command_txt = NoFiles
    /\ expected_outputs = test_config
    /\ tree = EmptyTree
    /\ validated = None
    /\ validation_result = NotValidated
    /\ combined_result = None
    /\ report_input \in ReportInputs
    /\ report_result = None
    /\ config_file = [kind |-> "missing"]
    /\ load_result = None
    /\ cmd_string = <<>>
    /\ environ = [v \in {} |-> <<>>]
    /\ parser_input = None
    /\ eod_result = None
    /\ example_input = [type |-> "int", int |-> 0]
    /\ example_output = None
    /\ test_module = "infant_quick_test"
    /\ existing_dirs = {}
    /\ fixture = new_fixture
    /\ setup_raised = None
    /\ outcomes = <<>>

SpecReport == ReportInit /\ [][ReportNext]_vars

\* The construction of a runner on each configuration file; there is no
\* configuration before it.
LoadInit ==
    /\ command = <<>>
    /\ base_dir = None
    /\ unique_output_dir = <<>>
    /\ modified_command = <<>>
    /\ cmd_done = FALSE
    /\ now = 0
    /\ pc = [p \in Callers |-> "idle"]
    /\ args = [p \in Callers |-> [command_string |-> <<>>, timeout |-> 0]]
    /\ result = [p \in Callers |-> [output_directory |-> <<>>]]
    /\ process = [p \in Callers |-> NotStarted]
    /\ starts = [p \in Callers |-> 0]
    /\ made_dirs = {}
    /\ command_txt = NoFiles
    /\ expected_outputs = None
    /\ tree = EmptyTree
    /\ validated = None
    /\ validation_result = NotValidated
    /\ combined_result = None
    /\ report_input = [kind |-> "list", value |-> <<>>]
    /\ report_result = None
    /\ config_file \in ConfigFiles
    /\ load_result = None
    /\ cmd_string = <<>>
    /\ environ = [v \in {} |-> <<>>]
    /\ parser_input = None
    /\ eod_result = None
    /\ example_input = [type |-> "int", int |-> 0]
    /\ example_output = None
    /\ test_module = "infant_quick_test"
    /\ existing_dirs = {}
    /\ fixture = new_fixture
    /\ setup_raised = None
    /\ outcomes = <<>>

SpecLoad == LoadInit /\ [][LoadNext]_vars

\* get_expected_output_directory on every bounded command string, with
\* SUBJECTS_DIR set and unset.
ExpectedInit ==
    /\ command = <<>>
    /\ base_dir = None
    /\ unique_output_dir = <<>>
    /\ modified_command = <<>>
    /\ cmd_done = FALSE
    /\ now = 0
    /\ pc = [p \in Callers |-> "idle"]
    /\ args = [p \in Callers |-> [command_string |-> <<>>, timeout |-> 0]]
    /\ result = [p \in Callers |-> [output_directory |-> <<>>]]
    /\ process = [p \in Callers |-> NotStarted]
    /\ starts = [p \in Callers |-> 0]
    /\ made_dirs = {}
    /\ command_txt = NoFiles
    /\ expected_outputs = test_config
    /\ tree = EmptyTree
    /\ validated = None
    /\ validation_result = NotValidated
    /\ combined_result = None
    /\ report_input = [kind |-> "list", value |-> <<>>]
    /\ report_result = None
    /\ config_file = [kind |-> "missing"]
    /\ load_result = None
    /\ cmd_string \in CommandStrings
    /\ environ \in Environs
    /\ parser_input = None
    /\ eod_result = None
    /\ example_input = [type |-> "int", int |-> 0]
    /\ example_output = None
    /\ test_module = "infant_quick_test"
    /\ existing_dirs = {}
    /\ fixture = new_fixture
    /\ setup_raised = None
    /\ outcomes = <<>>

SpecExpected == ExpectedInit /\ [][ExpectedNext]_vars

\* example_func on each input.
ExampleInit ==
    /\ command = <<>>
    /\ base_dir = None
    /\ unique_output_dir = <<>>
    /\ modified_command = <<>>
    /\ cmd_done = FALSE
    /\ now = 0
    /\ pc = [p \in Callers |-> "idle"]
    /\ args = [p \in Callers |-> [command_string |-> <<>>, timeout |-> 0]]
    /\ result = [p \in Callers |-> [output_directory |-> <<>>]]
    /\ process = [p \in Callers |-> NotStarted]
    /\ starts = [p \in Callers |-> 0]
    /\ made_dirs = {}
    /\ command_txt = NoFiles
    /\ expected_outputs = test_config
    /\ tree = EmptyTree
    /\ validated = None
    /\ validation_result = NotValidated
    /\ combined_result = None
    /\ report_input = [kind |-> "list", value |-> <<>>]
    /\ report_result = None
    /\ config_file = [kind |-> "missing"]
    /\ load_result = None
    /\ cmd_string = <<>>
    /\ environ = [v \in {} |-> <<>>]
    /\ parser_input = None
    /\ eod_result = None
    /\ example_input \in ExampleInputs
    /\ example_output = None
    /\ test_module = "infant_quick_test"
    /\ existing_dirs = {}
    /\ fixture = new_fixture
    /\ setup_raised = None
    /\ outcomes = <<>>

SpecExample == ExampleInit /\ [][ExampleNext]_vars

\* A session of tests of TestInfantFSExecution of either module, under each
\* environment and with each of the output directories existing or not.
SetUpInit ==
    /\ command = <<>>
    /\ base_dir = None
    /\ unique_output_dir = <<>>
    /\ modified_command = <<>>
    /\ cmd_done = FALSE
    /\ now = 0
    /\ pc = [p \in Callers |-> "idle"]
    /\ args = [p \in Callers |-> [command_string |-> <<>>, timeout |-> 0]]
    /\ result = [p \in Callers |-> [output_directory |-> <<>>]]
    /\ process = [p \in Callers |-> NotStarted]
    /\ starts = [p \in Callers |-> 0]
    /\ made_dirs = {}
    /\ command_txt = NoFiles
    /\ expected_outputs = test_config
    /\ tree = EmptyTree
    /\ validated = None
    /\ validation_result = NotValidated
    /\ combined_result = None
    /\ report_input = [kind |-> "list", value |-> <<>>]
    /\ report_result = None
    /\ config_file = [kind |-> "missing"]
    /\ load_result = None
    /\ cmd_string = <<>>
    /\ environ \in SessionEnvirons
    /\ parser_input = None
    /\ eod_result = None
    /\ example_input = [type |-> "int", int |-> 0]
    /\ example_output = None
    /\ test_module \in TestModules
    /\ existing_dirs \in SUBSET OutputDirs
    /\ fixture = new_fixture
    /\ setup_raised = None
    /\ outcomes = <<>>

SpecSetUp == SetUpInit /\ [][TestNext]_vars
----------------------------------------------------------------------------
\* Claims about validate_outputs

\* The (directory, file_name) pairs a configuration lists under a key.
ListedFiles(config, key) ==
    LET items == get(config, key, <<>>)
    IN  UNION { { <<items[i][1], items[i][2][j]>> : j \in 1..Len(items[i][2]) } :
                    i \in 1..Len(items) }

\* The (directory, file_name) pairs a configuration lists as conditional.
ConditionalFiles(config) ==
    LET groups == get(config, "conditional_files", <<>>)
    IN  UNION { ListedFiles(groups[g], "files") : g \in 1..Len(groups) }

\* The place of a listed file below the output directory, '.' being the
\* output directory itself.
PlaceOf(e) == IF e[1] = "." THEN <<e[2]>> ELSE <<e[1], e[2]>>

\* What a tree holds at a place.
Holds(t, place, k) == IF place \in Paths THEN t[place] = k ELSE k = "none"

\* The elements of a sequence.
Range(seq) == {seq[i] : i \in 1..Len(seq)}

\* C1: validation_passed is true exactly when the output directory exists,
\* every required directory is a directory under it and every required file
\* is a regular file at its place ('.' being the output directory itself).
C1_PassedIffAllRequired ==
    validated # None =>
        LET t == validated[1]
        IN  validation_result.validation_passed =
                ( /\ t[<<>>] = "dir"
                  /\ \A d \in Range(get(expected_outputs, "required_directories", <<>>)) :
                        Holds(t, <<d>>, "dir")
                  /\ \A e \in ListedFiles(expected_outputs, "required_files") :
                        Holds(t, PlaceOf(e), "file") )

\* C1 witness: a validation has passed under the default configuration,
\* which requires directories, files in them and a file in the output
\* directory.
C1_Witness ==
    /\ validated # None
    /\ expected_outputs = reduced_default_config
    /\ validation_result.validation_passed

\* C2: every file listed under required_files, optional_files and
\* conditional_files is recorded as found or missing in the validation
\* result of an existing output directory.
C2_AllCategoriesChecked ==
    (validated # None /\ validation_result.directory_exists) =>
        LET recorded ==
                Range(validation_result.required_files.found)
                \cup Range(validation_result.required_files.missing)
                \cup Range(validation_result.optional_files.found)
                \cup Range(validation_result.optional_files.missing)
        IN  \A e \in ListedFiles(expected_outputs, "required_files")
                    \cup ListedFiles(expected_outputs, "optional_files")
                    \cup ConditionalFiles(expected_outputs) :
                <<e[1], "/", e[2]>> \in recorded

\* The places of the files that are optional and not required as well.
OptionalPlaces(config) ==
    { PlaceOf(e) : e \in ListedFiles(config, "optional_files") }
        \ ( { PlaceOf(e) : e \in ListedFiles(config, "required_files") }
            \cup { <<d>> : d \in Range(get(config, "required_directories", <<>>)) } )

\* The trees that differ from t only in which optional files exist.
\* Each is t with some of the optional files created or removed.
OptionalVariants(config, t) ==
    LET flip(k) == IF k = "none" THEN "file" ELSE "none"
        flippable == { place \in OptionalPlaces(config) \cap Paths : t[place] # "dir" }
        flipped(S) == [place \in Paths |-> IF place \in S THEN flip(t[place]) ELSE t[place]]
    IN  { u \in { flipped(S) : S \in SUBSET flippable } : ValidTree(u) }

\* C3: two output trees that differ only in which optional files exist get
\* the same validation_passed, the same required_directories and
\* required_files lists and the same required-file counters; only
\* optional_files differs.
C3_OptionalFilesIgnored ==
    validated # None =>
        \A u \in OptionalVariants(expected_outputs, validated[1]) :
            LET other == validate_outputs(expected_outputs, u, OutputDir, now)
            IN  /\ other.validation_passed = validation_result.validation_passed
                /\ other.required_directories = validation_result.required_directories
                /\ other.required_files = validation_result.required_files
                /\ other.total_required_files = validation_result.total_required_files
                /\ other.total_found_required = validation_result.total_found_required
                /\ update(other, [optional_files |-> validation_result.optional_files])
                      = validation_result

\* C3 witness: a validation has passed on a tree without an optional file,
\* and the tree with that file gets another optional_files list.
C3_Witness ==
    /\ validated # None
    /\ validation_result.validation_passed
    /\ validation_result.optional_files.missing # <<>>
    /\ \E u \in OptionalVariants(expected_outputs, validated[1]) :
          validate_outputs(expected_outputs, u, OutputDir, now).optional_files
              # validation_result.optional_files

----------------------------------------------------------------------------
\* Claims about run_command

\* Caller p's call has returned after subprocess.run returned.
Completed(p) == pc[p] = "returned" /\ process[p].kind = "completed"

\* C4: any two run_command invocations are given different output
\* directories, also for the same subject within the same second or when
\* they run at the same time.
C4_DistinctOutputDirs ==
    \A p, q \in Callers :
        (p # q /\ pc[p] # "idle" /\ pc[q] # "idle") =>
            result[p].output_directory # result[q].output_directory

\* C5: when the command ends with exit code 0 the result has success true,
\* exit_code 0, the captured stdout and stderr, timeout_occurred false and
\* error_message None.
C5_SuccessResult ==
    \A p \in Callers :
        (Completed(p) /\ process[p].returncode = 0) =>
            /\ result[p].success = TRUE
            /\ result[p].exit_code = Some(0)
            /\ result[p].stdout = process[p].stdout
            /\ result[p].stderr = process[p].stderr
            /\ result[p].timeout_occurred = FALSE
            /\ result[p].error_message = None

\* C5 witness: a call has returned after the command printed "OK" and
\* ended with exit code 0.
C5_Witness ==
    \E p \in Callers :
        /\ Completed(p)
        /\ process[p].returncode = 0
        /\ process[p].stdout = <<"OK">>

\* C6: when the command ends with exit code n # 0, run_command returns a
\* result with success false, exit_code n, the captured stdout and stderr,
\* timeout_occurred false and error_message 'Process exited with code n'.
C6_FailureResult ==
    \A p \in Callers :
        (pc[p] # "idle" /\ process[p].kind = "completed"
            /\ process[p].returncode # 0) =>
            /\ pc[p] = "returned"
            /\ result[p].success = FALSE
            /\ result[p].exit_code = Some(process[p].returncode)
            /\ result[p].stdout = process[p].stdout
            /\ result[p].stderr = process[p].stderr
            /\ result[p].timeout_occurred = FALSE
            /\ result[p].error_message =
                  Some(<<"Process exited with code ", ToString(process[p].returncode)>>)

\* C6 witness: a call has returned after the command wrote "failure" to
\* stderr and ended with exit code 2.
C6_Witness ==
    \E p \in Callers :
        /\ Completed(p)
        /\ process[p].returncode = 2
        /\ process[p].stderr = <<"failure">>

\* C7: when the command exceeds the timeout, run_command returns a result
\* with success false, timeout_occurred true, exit_code None,
\* execution_time_seconds equal to the timeout argument and an error
\* message saying that the command timed out.
C7_TimeoutResult ==
    \A p \in Callers :
        (pc[p] # "idle" /\ process[p].kind = "TimeoutExpired") =>
            /\ pc[p] = "returned"
            /\ result[p].success = FALSE
            /\ result[p].timeout_occurred = TRUE
            /\ result[p].exit_code = None
            /\ result[p].execution_time_seconds = args[p].timeout * TicksPerSecond
            /\ result[p].error_message # None
            /\ result[p].error_message[1][1] = "Command timed out after "

\* C7 witness: a call has returned on a timeout that was noticed later
\* than the timeout argument.
C7_Witness ==
    \E p \in Callers :
        /\ pc[p] = "returned"
        /\ process[p].kind = "TimeoutExpired"
        /\ result[p].end_time - result[p].start_time > args[p].timeout * TicksPerSecond

----------------------------------------------------------------------------
\* Claims about modify_command_for_unique_output

\* A string is a ' '.join of tokens: no tab, no space at either end, no two
\* spaces in a row.
SingleSpaced(s) ==
    /\ \A i \in 1..Len(s) : s[i] # "\t"
    /\ s # <<>> => (s[1] # " " /\ s[Len(s)] # " ")
    /\ \A i \in 1..(Len(s) - 1) : ~(s[i] = " " /\ s[i + 1] = " ")

\* The command holds '--outdir' and a token after its first occurrence.
HasOutdirPath(cmd) ==
    LET parts == split(cmd)
    IN  index(parts, OUTDIR) # 0 /\ index(parts, OUTDIR) + 1 <= Len(parts)

\* The token after the first '--outdir' of a command that has one.
OldPath(cmd) == split(cmd)[index(split(cmd), OUTDIR) + 1]

\* C9: when the split command has no '--outdir' token, the returned string
\* is the original tokens in their order, then '--outdir', then the unique
\* directory, joined by single spaces.
C9_AppendsOutdir ==
    (cmd_done /\ index(split(command), OUTDIR) = 0) =>
        /\ split(modified_command) = split(command) \o <<OUTDIR, unique_output_dir>>
        /\ SingleSpaced(modified_command)

\* C9 witness: a command of several tokens without '--outdir', separated by
\* a tab, has been rewritten.
C9_Witness ==
    /\ cmd_done
    /\ index(split(command), OUTDIR) = 0
    /\ Len(split(command)) >= 2
    /\ Contains(command, <<"\t">>)

\* C10 as stated: when the command holds '--outdir' followed by a path, the
\* result holds '--outdir <unique>', the previous path appears nowhere in
\* it, no '--outdir' is added and every other token keeps value and place.
C10_Original ==
    (cmd_done /\ HasOutdirPath(command) /\ OldPath(command) # OUTDIR) =>
        LET parts == split(command)
            new_parts == split(modified_command)
            k == index(parts, OUTDIR) + 1
        IN  /\ Contains(modified_command, OUTDIR \o <<" ">> \o unique_output_dir)
            /\ ~Contains(modified_command, OldPath(command))
            /\ Len(new_parts) = Len(parts)
            /\ \A j \in 1..Len(parts) : j # k => new_parts[j] = parts[j]

\* C10 amended: the token after the first '--outdir' becomes the unique
\* directory, the result holds '--outdir <unique>', no token is added and
\* every other token keeps value and place; the previous path is gone from
\* the result provided it occurs neither in another token nor in the unique
\* directory.
C10_ReplacesOutdir ==
    (cmd_done /\ HasOutdirPath(command)) =>
        LET parts == split(command)
            new_parts == split(modified_command)
            k == index(parts, OUTDIR) + 1
            old == OldPath(command)
        IN  /\ Contains(modified_command, OUTDIR \o <<" ">> \o unique_output_dir)
            /\ Len(new_parts) = Len(parts)
            /\ new_parts[k] = unique_output_dir
            /\ \A j \in 1..Len(parts) : j # k => new_parts[j] = parts[j]
            /\ ( /\ ~Contains(unique_output_dir, old)
                 /\ \A j \in 1..Len(parts) : j # k => ~Contains(parts[j], old) )
               => ~Contains(modified_command, old)

\* C10 witness: '--outdir SOMEWHERE' with a further token has been
\* rewritten to a directory that does not hold the old path.
C10_Witness ==
    /\ cmd_done
    /\ HasOutdirPath(command)
    /\ OldPath(command) = <<"SOMEWHERE">>
    /\ Len(split(command)) >= 3
    /\ unique_output_dir = <<"out1">>
    /\ ~Contains(modified_command, <<"SOMEWHERE">>)

----------------------------------------------------------------------------
\* Claims about the command run_command executes and its output directory

\* The command has been prepared by run_command.
Prepared == cmd_done /\ modified_command # <<>>

\* C11: for every command string the command run_command executes has an
\* '--outdir' token, and every '--outdir' token in it is immediately
\* followed by the output directory run_command reports.
C11_ExecutedCommandUsesOutputDir ==
    Prepared =>
        LET parts == split(modified_command)
        IN  /\ \E i \in 1..Len(parts) : parts[i] = OUTDIR
            /\ \A i \in 1..Len(parts) :
                  parts[i] = OUTDIR =>
                      /\ i + 1 <= Len(parts)
                      /\ parts[i + 1] = unique_output_dir

\* The subject C12 names: the token after the first '-s' token, 'unknown'
\* when there is no '-s' token or it is the last one.
SubjectOf(cmd) ==
    LET parts == split(cmd)
        firsts == { i \in 1..Len(parts) :
                      /\ parts[i] = <<"-s">>
                      /\ \A j \in 1..(i - 1) : parts[j] # <<"-s">> }
    IN  IF \E i \in firsts : i < Len(parts)
        THEN parts[(CHOOSE i \in firsts : TRUE) + 1]
        ELSE <<"unknown">>

\* C12: generate_unique_output_dir returns the path directly under
\* base_output_dir (under <cwd>/infant_recon_outputs when none is given)
\* whose last component is '<subject>_<timestamp>'.
C12_UniqueDirUnderBase ==
    cmd_done =>
        LET base == IF base_dir = None
                    THEN getcwd \o <<"/", "infant_recon_outputs">>
                    ELSE base_dir
            last == SubjectOf(command) \o <<"_", strftime(now)>>
        IN  /\ unique_output_dir = base \o <<"/">> \o last
            /\ \A i \in 1..Len(last) : last[i] # "/"

----------------------------------------------------------------------------
\* Claims about run_and_validate

\* C13: run_and_validate reports overall_success = true exactly when the
\* command exited with code 0 and the validation of its output directory
\* passed; a timeout, another exit code, an exception or a missing required
\* directory or file each make it false.
C13_OverallSuccess ==
    combined_result # None =>
        LET t == validated[1]
            executed == /\ process[RavCaller].kind = "completed"
                        /\ process[RavCaller].returncode = 0
            all_there ==
                /\ t[<<>>] = "dir"
                /\ \A d \in Range(get(expected_outputs, "required_directories", <<>>)) :
                      Holds(t, <<d>>, "dir")
                /\ \A e \in ListedFiles(expected_outputs, "required_files") :
                      Holds(t, PlaceOf(e), "file")
        IN  /\ combined_result[1].overall_success = (executed /\ all_there)
            /\ combined_result[1].execution = result[RavCaller]
            /\ combined_result[1].validation = validation_result
            /\ combined_result[1].validation.output_directory
                  = combined_result[1].execution.output_directory

\* C13 witness: both outcomes of a run with exit code 0 are reached; this
\* one has a complete output directory and overall_success true.
C13_Witness ==
    /\ combined_result # None
    /\ combined_result[1].overall_success
    /\ combined_result[1].execution.exit_code = Some(0)
    /\ combined_result[1].validation.validation_passed

----------------------------------------------------------------------------
\* Claims about generate_report

\* The results handed to generate_report, as a list.
ResultList ==
    IF report_input.kind = "list" THEN report_input.value
    ELSE <<report_input.value>>

\* The results whose overall_success is true.
PassedResults ==
    { i \in 1..Len(ResultList) :
        /\ "overall_success" \in DOMAIN ResultList[i]
        /\ ResultList[i].overall_success }

\* C14: generate_report returns a report whose total_tests is the number of
\* results (one for a single dict), passed_tests the number of results with
\* overall_success true, failed_tests the number of all others, so that the
\* two add up to total_tests, and whose test_details are the results in
\* their order.
C14_ReportCounts ==
    report_result # None =>
        /\ DOMAIN report_result[1] = {"returns"}
        /\ LET report == report_result[1].returns
           IN  /\ report.total_tests = Len(ResultList)
               /\ report.passed_tests = Cardinality(PassedResults)
               /\ report.failed_tests = Len(ResultList) - Cardinality(PassedResults)
               /\ report.passed_tests + report.failed_tests = report.total_tests
               /\ report.test_details = ResultList

\* C15: the report generate_report returns has a 'summary' entry.
C15_ReportHasSummary ==
    (report_result # None /\ DOMAIN report_result[1] = {"returns"}) =>
        "summary" \in DOMAIN report_result[1].returns

----------------------------------------------------------------------------
\* Claims about the counters of validate_outputs

\* The number of file entries a configuration lists under required_files.
RECURSIVE CountFiles(_)
CountFiles(items) ==
    IF items = <<>> THEN 0 ELSE Len(items[1][2]) + CountFiles(Tail(items))

\* The counters of the result add up, and no entry is both found and
\* missing.
CountersAddUp ==
    /\ validation_result.total_found_required
          + Len(validation_result.required_files.missing)
       = validation_result.total_required_files
    /\ Range(validation_result.required_files.found)
          \cap Range(validation_result.required_files.missing) = {}

\* Every configured required file is in exactly one of found and missing.
EachRequiredFileOnce ==
    \A e \in ListedFiles(expected_outputs, "required_files") :
        (<<e[1], "/", e[2]>> \in Range(validation_result.required_files.found))
            # (<<e[1], "/", e[2]>> \in Range(validation_result.required_files.missing))

\* The totals are those of the configuration.
TotalsAsConfigured ==
    /\ validation_result.total_required_files
          = CountFiles(get(expected_outputs, "required_files", <<>>))
    /\ Len(validation_result.required_directories.found)
          + Len(validation_result.required_directories.missing)
       = Len(get(expected_outputs, "required_directories", <<>>))

----------------------------------------------------------------------------
\* Claims about load_config

\* The configuration file is valid YAML.
ValidYaml ==
    /\ config_file.kind = "text"
    /\ DOMAIN safe_load(config_file.lines) = {"returns"}

\* C17: load_config never fails on a bad configuration file: a file that
\* does not exist or is not valid YAML gives a runner with the default
\* configuration, and the parsed content of a valid YAML file is used
\* unchanged.
C17_LoadConfigNeverFails ==
    load_result # None =>
        /\ DOMAIN load_result[1] = {"returns"}
        /\ expected_outputs = load_result[1].returns
        /\ IF ValidYaml
           THEN expected_outputs = safe_load(config_file.lines).returns
           ELSE /\ expected_outputs = get_default_config
                /\ expected_outputs.required_directories
                      = <<"mri", "surf", "label", "stats", "log">>

----------------------------------------------------------------------------
\* Claims about get_expected_output_directory

\* The shell-style tokens of the command string without a leading 'python'
\* token and without a leading script token after it.
GivenArguments ==
    LET tokens == shlex_split(cmd_string)
        rest == IF tokens # <<>> /\ tokens[1] = <<"python">>
                THEN Tail(tokens) ELSE tokens
        script(token) ==
            \/ Contains(token, <<"infant_recon_all">>)
            \/ (token # <<>> /\ token[Len(token)] = ".py")
    IN  IF rest # <<>> /\ script(rest[1]) THEN Tail(rest) ELSE rest

\* What the parser makes of the arguments as given.
GivenNamespace == parser_parse_args(GivenArguments)

\* The command string is one the function has to answer: its quotes pair up
\* and its arguments are accepted by the parser, with a subject.
Answerable ==
    /\ ~unclosed(cmd_string)
    /\ "error" \notin DOMAIN GivenNamespace
    /\ GivenNamespace.s # Some(<<>>)

\* C18: get_expected_output_directory returns an absolute path: the
\* absolute form of the --outdir value when --outdir is given, whatever
\* SUBJECTS_DIR and the subject are, and otherwise <SUBJECTS_DIR>/<subject>
\* (the subject joined to SUBJECTS_DIR as a path), with the current working
\* directory for an unset SUBJECTS_DIR.
C18_ExpectedOutputDirectory ==
    (eod_result # None /\ Answerable) =>
        LET subjsdir == IF "SUBJECTS_DIR" \in DOMAIN environ
                        THEN environ.SUBJECTS_DIR ELSE getcwd
            expected ==
                IF GivenNamespace.outdir \notin {None, Some(<<>>)}
                THEN abspath(GivenNamespace.outdir[1])
                ELSE abspath(path_join(subjsdir, GivenNamespace.s[1]))
        IN  /\ eod_result[1] = [returns |-> expected]
            /\ isabs(expected)
            /\ GivenNamespace.outdir \notin {None, Some(<<>>)} =>
                  \A env \in Environs :
                      get_expected_output_directory(cmd_string, env) = eod_result[1]

\* C19: the argument parser receives exactly the shell-style tokens of the
\* command string that remain when a leading 'python' token and then a
\* leading script token are removed, a quoted argument with spaces in it
\* as one token.
C19_ParserReceivesTokens ==
    (eod_result # None /\ ~unclosed(cmd_string)) =>
        parser_input = Some(GivenArguments)

----------------------------------------------------------------------------
\* Claims about example_func

\* C20: example_func returns its input unchanged for every integer input.
C20_ReturnsInteger ==
    (example_output # None /\ example_input.type = "int") =>
        example_output[1] = [returns |-> example_input]

\* C20 witness: a negative integer, and so not the one the test passes, has
\* been returned.
C20_Witness ==
    /\ example_output # None
    /\ example_input.type = "int"
    /\ example_input.int < 0
    /\ example_output[1] = [returns |-> example_input]

----------------------------------------------------------------------------
\* Claims about TestInfantFSExecution.setUp

\* C21: after setUp, expected_output_dir is the directory
\* get_expected_output_directory returns for the command setUp defines,
\* which is <SUBJECTS_DIR>/sub-01 as the command has no --outdir.
C21_SetUpUsesComputedDirectory ==
    outcomes # <<>> =>
        /\ setup_raised = None
        /\ fixture.expected_output_dir
              = Some(get_expected_output_directory(infantfs_command, environ).returns)
        /\ fixture.expected_output_dir
              = Some(environ.SUBJECTS_DIR \o <<"/", "sub-01">>)

============================================================================
